---- MODULE Spec2Model ----
(***************************************************************************)
(* Model of the vectorised backtest engine (src/src/backtest/engine.py,    *)
(* src/src/backtest/metrics.py) and of the strategies it drives            *)
(* (src/src/strategies).                                                   *)
(*                                                                         *)
(* Numbers.  The program computes in IEEE doubles.  The model computes in  *)
(* exact rationals <<num, den>> with den > 0 in lowest terms, extended     *)
(* with the three non-finite doubles the code relies on:                   *)
(*     NaN = <<0, 0>>,  +inf = <<1, 0>>,  -inf = <<-1, 0>>.                *)
(* Rounding of doubles is not modelled.  A pandas Series is a sequence;    *)
(* Python index t is index t + 1 of the sequence.                          *)
(***************************************************************************)
EXTENDS Integers, Sequences, FiniteSets, TLC

\* ---------------------------------------------------------------- bounds
MaxLen == 3
MaxPrice == 2
MaxCalls == 3
MaxPeriod == 2

\* ------------------------------------------------------------- rationals
Abs(n) == IF n < 0 THEN -n ELSE n

Sgn(n) == IF n < 0 THEN -1 ELSE IF n > 0 THEN 1 ELSE 0

RECURSIVE GCD(_, _)
GCD(a, b) == IF b = 0 THEN a ELSE GCD(b, a % b)

NaN == <<0, 0>>

PosInf == <<1, 0>>

Norm(n, d) ==
    IF d = 0 THEN <<Sgn(n), 0>>
    ELSE LET s == IF d < 0 THEN -1 ELSE 1
             g == GCD(Abs(n), Abs(d))
         IN  <<(s * n) \div g, (s * d) \div g>>

R(k) == <<k, 1>>

Zero == R(0)

One == R(1)

IsNaN(a) == a = NaN

Mul(a, b) == Norm(a[1] * b[1], a[2] * b[2])

Add(a, b) ==
    IF IsNaN(a) \/ IsNaN(b) THEN NaN
    ELSE IF a[2] = 0 /\ b[2] = 0 THEN (IF a = b THEN a ELSE NaN)
    ELSE IF a[2] = 0 THEN a
    ELSE IF b[2] = 0 THEN b
    ELSE LET g == GCD(a[2], b[2])
         IN  Norm(a[1] * (b[2] \div g) + b[1] * (a[2] \div g), (a[2] \div g) * b[2])

Neg(a) == <<-a[1], a[2]>>

Sub(a, b) == Add(a, Neg(b))

Div(a, b) ==
    IF IsNaN(a) \/ IsNaN(b) THEN NaN
    ELSE IF b[2] = 0 THEN (IF a[2] = 0 THEN NaN ELSE Zero)
    ELSE IF b[1] = 0 THEN <<Sgn(a[1]), 0>>
    ELSE Norm(a[1] * b[2] * Sgn(b[1]), a[2] * Abs(b[1]))

RAbs(a) == <<Abs(a[1]), a[2]>>

\* Comparisons of doubles: every comparison with NaN is false.
Lt(a, b) ==
    /\ ~IsNaN(a)
    /\ ~IsNaN(b)
    /\ IF a[2] = 0 /\ b[2] = 0 THEN a[1] < b[1]
       ELSE IF a[2] = 0 THEN a[1] < 0
       ELSE IF b[2] = 0 THEN b[1] > 0
       ELSE LET g == GCD(a[2], b[2])
            IN  a[1] * (b[2] \div g) < b[1] * (a[2] \div g)

Gt(a, b) == Lt(b, a)

Le(a, b) == ~IsNaN(a) /\ ~IsNaN(b) /\ ~Lt(b, a)

\* numpy's maximum / minimum: NaN propagates.
RMax(a, b) == IF IsNaN(a) \/ IsNaN(b) THEN NaN ELSE IF Lt(a, b) THEN b ELSE a

RMin(a, b) == IF IsNaN(a) \/ IsNaN(b) THEN NaN ELSE IF Lt(b, a) THEN b ELSE a

\* ---------------------------------------------------------------- series
ToFloat(s) == [i \in 1..Len(s) |-> R(s[i])]

PctChange(close) ==
    [i \in 1..Len(close) |->
        IF i = 1 THEN NaN ELSE Sub(Div(R(close[i]), R(close[i - 1])), One)]

Shift1(s) == [i \in 1..Len(s) |-> IF i = 1 THEN NaN ELSE s[i - 1]]

Diff(s) == [i \in 1..Len(s) |-> IF i = 1 THEN NaN ELSE Sub(s[i], s[i - 1])]

FillNa(s, v) == [i \in 1..Len(s) |-> IF IsNaN(s[i]) THEN v ELSE s[i]]

DropNa(s) == SelectSeq(s, LAMBDA x : ~IsNaN(x))

SeriesAbs(s) == [i \in 1..Len(s) |-> RAbs(s[i])]

SeriesMul(s, u) == [i \in 1..Len(s) |-> Mul(s[i], u[i])]

SeriesSub(s, u) == [i \in 1..Len(s) |-> Sub(s[i], u[i])]

Scale(s, c) == [i \in 1..Len(s) |-> Mul(s[i], c)]

OnePlus(s) == [i \in 1..Len(s) |-> Add(One, s[i])]

RECURSIVE Prod(_)
Prod(s) == IF Len(s) = 0 THEN One ELSE Mul(Prod(SubSeq(s, 1, Len(s) - 1)), s[Len(s)])

RECURSIVE Sum(_)
Sum(s) == IF Len(s) = 0 THEN Zero ELSE Add(Sum(SubSeq(s, 1, Len(s) - 1)), s[Len(s)])

RECURSIVE CumProd(_)
CumProd(s) ==
    IF Len(s) = 0 THEN <<>>
    ELSE LET p == CumProd(SubSeq(s, 1, Len(s) - 1))
         IN  Append(p, IF Len(p) = 0 THEN s[1] ELSE Mul(p[Len(p)], s[Len(s)]))

RECURSIVE MaxAccumulate(_)
MaxAccumulate(s) ==
    IF Len(s) = 0 THEN <<>>
    ELSE LET p == MaxAccumulate(SubSeq(s, 1, Len(s) - 1))
         IN  Append(p, IF Len(p) = 0 THEN s[1] ELSE RMax(p[Len(p)], s[Len(s)]))

RECURSIVE SeriesMin(_)
SeriesMin(s) ==
    IF Len(s) = 1 THEN s[1] ELSE RMin(SeriesMin(SubSeq(s, 1, Len(s) - 1)), s[Len(s)])

Mean(s) == Div(Sum(s), R(Len(s)))

\* Sample variance (ddof = 1), the square of Series.std(); NaN for one element.
Variance(s) ==
    IF Len(s) < 2 THEN NaN
    ELSE LET m == Mean(s)
             d == [i \in 1..Len(s) |-> Mul(Sub(s[i], m), Sub(s[i], m))]
         IN  Div(Sum(d), R(Len(s) - 1))

\* ------------------------------------------------------------ indicators
\* close.ewm(span = period, adjust = False).mean(), alpha = 2 / (span + 1).
\* pandas rejects span < 1 with a ValueError; EmaRaises says when.
EmaRaises(period) == period < 1

RECURSIVE ema(_, _)
ema(close, period) ==
    IF Len(close) = 0 THEN <<>>
    ELSE LET alpha == Norm(2, period + 1)
             p == ema(SubSeq(close, 1, Len(close) - 1), period)
             x == R(close[Len(close)])
         IN  Append(p, IF Len(p) = 0 THEN x
                       ELSE Add(Mul(Sub(One, alpha), p[Len(p)]), Mul(alpha, x)))

\* Series.rolling(window).mean(): NaN until the window is full; pandas rejects
\* a negative window with a ValueError.
RollingRaises(window) == window < 0

RollingMean(s, window) ==
    [i \in 1..Len(s) |->
        IF i < window \/ window = 0 THEN NaN
        ELSE Mean(SubSeq(s, i - window + 1, i))]

\* rsi(close, period) = 100 - 100 / (1 + avg_gain / avg_loss).  The NaN first
\* difference counts as neither gain nor loss.
rsi(close, period) ==
    LET delta == Diff(ToFloat(close))
        gain == [i \in 1..Len(delta) |-> IF Gt(delta[i], Zero) THEN delta[i] ELSE Zero]
        loss == [i \in 1..Len(delta) |->
                    Neg(IF Lt(delta[i], Zero) THEN delta[i] ELSE Zero)]
        avg_gain == RollingMean(gain, period)
        avg_loss == RollingMean(loss, period)
    IN  [i \in 1..Len(delta) |->
            Sub(R(100), Div(R(100), Add(One, Div(avg_gain[i], avg_loss[i]))))]

\* ------------------------------------------------------------ strategies
Signals == {-1, 0, 1}

\* A strategy instance.  "BaseStrategy" stands for any caller-written
\* subclass: its calculate returns the frame with some signal column
\* (table), one value of Signals per bar.
CustomStrategy(table) == [cls |-> "BaseStrategy", table |-> table]

SimpleEMACrossStrategy(short_period, long_period) ==
    [cls |-> "SimpleEMACrossStrategy",
     short_period |-> short_period, long_period |-> long_period]

EMACrossStrategy(short_period, long_period, trend_period, rsi_period, rsi_threshold, use_trend_filter, use_rsi_filter) ==
    [cls |-> "EMACrossStrategy",
     short_period |-> short_period, long_period |-> long_period,
     trend_period |-> trend_period, rsi_period |-> rsi_period,
     rsi_threshold |-> rsi_threshold,
     use_trend_filter |-> use_trend_filter, use_rsi_filter |-> use_rsi_filter]

StrategyName(st) ==
    IF st.cls = "SimpleEMACrossStrategy"
    THEN <<"simple_ema", st.short_period, st.long_period>>
    ELSE IF st.cls = "EMACrossStrategy"
    THEN <<"ema_cross", st.short_period, st.long_period>>
    ELSE <<"custom">>

\* The params property: EMACrossStrategy leaves rsi_period out.
StrategyParams(st) ==
    IF st.cls = "SimpleEMACrossStrategy"
    THEN [short_period |-> st.short_period, long_period |-> st.long_period]
    ELSE IF st.cls = "EMACrossStrategy"
    THEN [short_period |-> st.short_period, long_period |-> st.long_period,
          trend_period |-> st.trend_period, rsi_threshold |-> st.rsi_threshold,
          use_trend_filter |-> st.use_trend_filter,
          use_rsi_filter |-> st.use_rsi_filter]
    ELSE <<>>

Max(a, b) == IF a >= b THEN a ELSE b

\* The min_bars property; a subclass that does not override it has 50.
min_bars(st) ==
    IF st.cls = "SimpleEMACrossStrategy" THEN st.long_period + 5
    ELSE IF st.cls = "EMACrossStrategy"
    THEN Max(st.short_period, Max(st.long_period, st.trend_period)) + 10
    ELSE 50

\* A slip: equal averages count as a long signal (>= for >).
CrossSignalTiesLong(ema_short, ema_long) ==
    [i \in 1..Len(ema_short) |->
        IF Lt(ema_short[i], ema_long[i]) THEN -1 ELSE 1]

CrossSignal(ema_short, ema_long) ==
    [i \in 1..Len(ema_short) |->
        IF Lt(ema_short[i], ema_long[i]) THEN -1
        ELSE IF Gt(ema_short[i], ema_long[i]) THEN 1
        ELSE 0]

\* The trend filter: a long signal stays only where close > ema_trend.
TrendFilter(signal, close, ema_trend) ==
    [i \in 1..Len(signal) |->
        IF signal[i] = 1 /\ ~Gt(R(close[i]), ema_trend[i]) THEN 0 ELSE signal[i]]

\* A slip: the RSI filter clears the short signals too.
RsiFilterBothSides(signal, rsi_col, rsi_threshold) ==
    [i \in 1..Len(signal) |->
        IF signal[i] # 0 /\ ~Gt(rsi_col[i], R(rsi_threshold)) THEN 0 ELSE signal[i]]

\* The RSI filter: a long signal stays only where rsi > rsi_threshold (a NaN
\* rsi is not above it).
RsiFilter(signal, rsi_col, rsi_threshold) ==
    [i \in 1..Len(signal) |->
        IF signal[i] = 1 /\ ~Gt(rsi_col[i], R(rsi_threshold)) THEN 0 ELSE signal[i]]

\* EMACrossStrategy.calculate raises where one of its indicators does.
EMACrossRaises(st) ==
    \/ EmaRaises(st.short_period) \/ EmaRaises(st.long_period)
    \/ st.use_trend_filter /\ EmaRaises(st.trend_period)
    \/ st.use_rsi_filter /\ RollingRaises(st.rsi_period)

\* if self.use_trend_filter: ...
TrendStage(st, df, signal) ==
    IF st.use_trend_filter THEN TrendFilter(signal, df, ema(df, st.trend_period))
    ELSE signal

\* if self.use_rsi_filter: ...
RsiStage(st, df, signal) ==
    IF st.use_rsi_filter
    THEN RsiFilter(signal, rsi(df, st.rsi_period), st.rsi_threshold)
    ELSE signal

Raised == [raised |-> TRUE]

\* strategy.calculate(df): a new frame (df.copy() plus columns), or Raised.
Calculate(st, df) ==
    IF st.cls = "SimpleEMACrossStrategy"
    THEN IF EmaRaises(st.short_period) \/ EmaRaises(st.long_period) THEN Raised
         ELSE LET es == ema(df, st.short_period)
                  el == ema(df, st.long_period)
              IN  [raised |-> FALSE, close |-> df, signal |-> CrossSignal(es, el)]
    ELSE IF st.cls = "EMACrossStrategy"
    THEN IF EMACrossRaises(st) THEN Raised
         ELSE [raised |-> FALSE, close |-> df,
               signal |-> RsiStage(st, df, TrendStage(st, df,
                              CrossSignal(ema(df, st.short_period),
                                          ema(df, st.long_period))))]
    ELSE IF Len(st.table) # Len(df) THEN Raised
    ELSE [raised |-> FALSE, close |-> df, signal |-> st.table]

\* --------------------------------------------------------------- metrics
DaysPerYear == 365

\* (1 + total_return) ** (365 / days) - 1 is irrational in general.  An annual
\* return is the number [k |-> "num", v |-> q], or the term
\* [k |-> "pow", base |-> 1 + total_return, days |-> days]; a base of 1 gives
\* the number 0 (1 ** x = 1 exactly).
Num(q) == [k |-> "num", v |-> q]

\* A slip: a wiped-out series is reported with an annual return of -1.
AnnualReturnFloor(total_return, days) ==
    IF days > 0 /\ Gt(total_return, R(-1))
    THEN IF total_return = Zero THEN Num(Zero)
         ELSE [k |-> "pow", base |-> Add(One, total_return), days |-> days]
    ELSE IF days > 0 THEN Num(R(-1)) ELSE Num(Zero)

AnnualReturn(total_return, days) ==
    IF days > 0 /\ Gt(total_return, R(-1))
    THEN IF total_return = Zero THEN Num(Zero)
         ELSE [k |-> "pow", base |-> Add(One, total_return), days |-> days]
    ELSE Num(Zero)

\* The sign of an annual return or of a Sharpe ratio.
RECURSIVE TermSign(_)
TermSign(x) ==
    IF x.k = "pow" THEN (IF Lt(x.base, One) THEN -1 ELSE 1)
    ELSE IF x.k = "ratio" THEN TermSign(x.ann)
    ELSE Sgn(x.v[1])

\* A slip: no guard on the volatility, so 0 / 0 gives NaN.
SharpeRatioUnguarded(annual_return, returns) ==
    LET v == Variance(returns)
    IN  IF annual_return = Num(Zero)
        THEN (IF Gt(v, Zero) THEN Num(Zero) ELSE Num(NaN))
        ELSE [k |-> "ratio", ann |-> annual_return, vol2 |-> Mul(R(DaysPerYear), v)]

\* annual_return / (std * sqrt(365)) when the volatility is > 0, else 0; the
\* quotient is the term [k |-> "ratio", ann |-> annual_return,
\* vol2 |-> 365 * variance], and the number 0 when annual_return is 0.
SharpeRatio(annual_return, returns) ==
    LET v == Variance(returns)
    IN  IF Gt(v, Zero)
        THEN IF annual_return = Num(Zero) THEN Num(Zero)
             ELSE [k |-> "ratio", ann |-> annual_return, vol2 |-> Mul(R(DaysPerYear), v)]
        ELSE Num(Zero)

ZeroMetrics ==
    [total_return |-> Zero, annual_return |-> Num(Zero), sharpe_ratio |-> Num(Zero),
     max_drawdown |-> Zero, win_rate |-> Zero, total_trades |-> 0,
     profit_factor |-> Zero, avg_trade_return |-> Zero]

\* A slip: the drawdown is measured from the first equity, not the running peak.
MaxDrawdownFromStart(equity) ==
    SeriesMin([i \in 1..Len(equity) |-> Div(Sub(equity[i], equity[1]), equity[1])])

MaxDrawdown(equity) ==
    LET peak == MaxAccumulate(equity)
        drawdown == [i \in 1..Len(equity) |-> Div(Sub(equity[i], peak[i]), peak[i])]
    IN  SeriesMin(drawdown)

\* A slip: the first difference's NaN at bar 0 is not filled, and NaN != 0.
TotalTradesNoFillNa(signals) ==
    Len(SelectSeq(Diff(ToFloat(signals)), LAMBDA x : x # Zero))

TotalTrades(signals) ==
    LET position_changes == FillNa(Diff(ToFloat(signals)), Zero)
    IN  Len(SelectSeq(position_changes, LAMBDA x : x # Zero))

IsWin(x) == Gt(x, Zero)

IsLoss(x) == Lt(x, Zero)

\* A slip: the zero returns are counted in the denominator.
WinRateAllBars(returns) ==
    LET w == Len(SelectSeq(returns, IsWin))
    IN  IF Len(returns) > 0 THEN Norm(w, Len(returns)) ELSE Zero

WinRate(returns) ==
    LET w == Len(SelectSeq(returns, IsWin))
        l == Len(SelectSeq(returns, IsLoss))
    IN  IF w + l > 0 THEN Norm(w, w + l) ELSE Zero

\* A slip: with neither gains nor losses the factor is reported as 0.
ProfitFactorFlatZero(returns) ==
    LET winning == SelectSeq(returns, IsWin)
        losing == SelectSeq(returns, IsLoss)
    IN  IF Len(losing) > 0 /\ Gt(RAbs(Sum(losing)), Zero)
        THEN Div(IF Len(winning) > 0 THEN Sum(winning) ELSE Zero, RAbs(Sum(losing)))
        ELSE IF Len(winning) > 0 THEN PosInf ELSE Zero

ProfitFactor(returns) ==
    LET winning == SelectSeq(returns, IsWin)
        losing == SelectSeq(returns, IsLoss)
        total_gains == IF Len(winning) > 0 THEN Sum(winning) ELSE Zero
        total_losses == IF Len(losing) > 0 THEN RAbs(Sum(losing)) ELSE Zero
    IN  IF Gt(total_losses, Zero) THEN Div(total_gains, total_losses) ELSE PosInf

AvgTradeReturn(returns) ==
    LET nz == SelectSeq(returns, LAMBDA x : x # Zero)
    IN  IF Len(nz) > 0 THEN Mean(nz) ELSE Zero

\* A slip: the returns are added up, not compounded.
TotalReturnSimple(returns) == Sum(returns)

\* (1 + returns).prod() - 1
TotalReturn(returns) == Sub(Prod(OnePlus(returns)), One)

calculate_metrics(returns0, equity_curve, signals) ==
    LET returns == DropNa(returns0)
    IN  IF Len(returns) = 0 THEN ZeroMetrics
        ELSE LET total_return == TotalReturn(returns)
                 annual_return == AnnualReturn(total_return, Len(returns))
             IN  [total_return |-> total_return,
                  annual_return |-> annual_return,
                  sharpe_ratio |-> SharpeRatio(annual_return, returns),
                  max_drawdown |-> MaxDrawdown(equity_curve),
                  win_rate |-> WinRate(returns),
                  total_trades |-> TotalTrades(signals),
                  profit_factor |-> ProfitFactor(returns),
                  avg_trade_return |-> AvgTradeReturn(returns)]

calculate_hodl_return(df) ==
    IF Len(df) < 2 THEN Zero
    ELSE Sub(Div(R(df[Len(df)]), R(df[1])), One)

\* ---------------------------------------------------------------- engine
\* A slip: the slippage is left out of total_cost.
BacktestEngineFeeOnly(fee_rate, slippage, initial_capital) ==
    [fee_rate |-> fee_rate, slippage |-> slippage,
     total_cost |-> fee_rate, initial_capital |-> initial_capital]

\* BacktestEngine.__init__
BacktestEngine(fee_rate, slippage, initial_capital) ==
    [fee_rate |-> fee_rate, slippage |-> slippage,
     total_cost |-> Add(fee_rate, slippage), initial_capital |-> initial_capital]

\* A slip: bar 0 is charged as an entry from a flat position.
PositionChangesFromFlat(signals) ==
    [i \in 1..Len(signals) |->
        R(Abs(signals[i] - (IF i = 1 THEN 0 ELSE signals[i - 1])))]

\* A slip: a change is charged once whatever its size.
PositionChangesFlag(signals) ==
    [i \in 1..Len(signals) |->
        IF i > 1 /\ signals[i] # signals[i - 1] THEN One ELSE Zero]

PositionChanges(signals) == SeriesAbs(FillNa(Diff(ToFloat(signals)), Zero))

\* A slip: the price return of bar t is credited to signal[t] (look-ahead).
StrategyReturnsNoLag(self, close, signals) ==
    FillNa(SeriesSub(SeriesMul(PctChange(close), ToFloat(signals)),
                     Scale(SeriesAbs(FillNa(Diff(ToFloat(signals)), Zero)),
                           self.total_cost)),
           Zero)

StrategyReturns(self, close, signals) ==
    LET returns == PctChange(close)
        position_changes == PositionChanges(signals)
    IN  FillNa(SeriesSub(SeriesMul(returns, Shift1(ToFloat(signals))),
                         Scale(position_changes, self.total_cost)),
               Zero)

\* A slip: the curve is not scaled by the initial capital.
EquityCurveUnscaled(self, strategy_returns) == CumProd(OnePlus(strategy_returns))

EquityCurve(self, strategy_returns) ==
    Scale(CumProd(OnePlus(strategy_returns)), self.initial_capital)

\* BacktestResult.summary(): one flat row; a later key overrides an earlier one.
Summary(result) ==
    [hodl_return |-> result.hodl_return] @@ result.metrics
        @@ result.params @@ [strategy |-> result.strategy_name]

\* BacktestEngine.run: the BacktestResult, with run's locals position_changes
\* and strategy_returns beside it, or Raised when strategy.calculate raises.
run(self, df, strategy) ==
    LET result_df == Calculate(strategy, df)
    IN  IF result_df.raised THEN Raised
        ELSE LET signals == result_df.signal
                 strategy_returns == StrategyReturns(self, result_df.close, signals)
                 equity_curve == EquityCurve(self, strategy_returns)
             IN  [raised |-> FALSE,
                  strategy_name |-> StrategyName(strategy),
                  params |-> StrategyParams(strategy),
                  metrics |-> calculate_metrics(strategy_returns, equity_curve, signals),
                  hodl_return |-> calculate_hodl_return(df),
                  equity_curve |-> equity_curve,
                  signals |-> signals,
                  df |-> [close |-> result_df.close, signal |-> signals],
                  position_changes |-> PositionChanges(signals),
                  strategy_returns |-> strategy_returns]

\* A slip: run keeps the final equity as the capital of the next run.
EngineCarryCapital(self, result) ==
    IF ~result.raised /\ Len(result.equity_curve) > 0
    THEN [self EXCEPT !.initial_capital = result.equity_curve[Len(result.equity_curve)]]
    ELSE self

\* What run leaves in the engine and in the caller's frame: run assigns no
\* attribute of self, and calculate works on df.copy().
EngineAfterRun(self, result) == self

\* A slip: calculate works on the caller's frame and drops its first row,
\* whose return is undefined, in place.
FrameAfterRunInPlace(df, result) ==
    IF ~result.raised /\ Len(df) > 0 THEN Tail(df) ELSE df

FrameAfterRun(df, result) == df

\* The strategy after the run: calculate, name and params read the
\* attributes set by __init__ and assign none.
StrategyAfterRun(strategy, result) == strategy

\* ----------------------------------------------------------- grid search
\* A param_grid is a sequence of <<name, list of values>> pairs, in the order
\* of the dict's keys.
ParamNames(param_grid) == [i \in 1..Len(param_grid) |-> param_grid[i][1]]

ParamValues(param_grid) == [i \in 1..Len(param_grid) |-> param_grid[i][2]]

RECURSIVE Flatten(_)
Flatten(ss) == IF Len(ss) = 0 THEN <<>> ELSE Head(ss) \o Flatten(Tail(ss))

\* itertools.product(*param_values): the last list varies fastest.
RECURSIVE product(_)
product(param_values) ==
    IF Len(param_values) = 0 THEN << <<>> >>
    ELSE LET rest == product(Tail(param_values))
             first == Head(param_values)
         IN  Flatten([i \in 1..Len(first) |->
                        [j \in 1..Len(rest) |-> <<first[i]>> \o rest[j]]])

\* dict(zip(param_names, values)), as the sequence of <<name, value>> pairs.
ZipParams(param_names, values) ==
    [i \in 1..Len(param_names) |-> <<param_names[i], values[i]>>]

HasParam(params, name) == \E i \in 1..Len(params) : params[i][1] = name

GetParam(params, name, default) ==
    IF HasParam(params, name)
    THEN params[CHOOSE i \in 1..Len(params) : params[i][1] = name][2]
    ELSE default

\* strategy_class(**params): the instance, or Raised (TypeError) for a keyword
\* the constructor does not take and for the abstract base class.
Construct(strategy_class, params) ==
    IF strategy_class = "SimpleEMACrossStrategy"
       /\ \A i \in 1..Len(params) : params[i][1] \in {"short_period", "long_period"}
    THEN [raised |-> FALSE,
          strategy |-> SimpleEMACrossStrategy(GetParam(params, "short_period", 5),
                                              GetParam(params, "long_period", 20))]
    ELSE IF strategy_class = "EMACrossStrategy"
            /\ \A i \in 1..Len(params) : params[i][1] \in
                    {"short_period", "long_period", "trend_period", "rsi_period",
                     "rsi_threshold", "use_trend_filter", "use_rsi_filter"}
    THEN [raised |-> FALSE,
          strategy |-> EMACrossStrategy(GetParam(params, "short_period", 5),
                                        GetParam(params, "long_period", 20),
                                        GetParam(params, "trend_period", 60),
                                        GetParam(params, "rsi_period", 14),
                                        GetParam(params, "rsi_threshold", 50),
                                        GetParam(params, "use_trend_filter", TRUE),
                                        GetParam(params, "use_rsi_filter", TRUE))]
    ELSE Raised

\* One pass of grid_search's loop body: the summary row, or Raised when the
\* construction or the run raised (the except branch).
Evaluate(self, df, strategy_class, params) ==
    LET c == Construct(strategy_class, params)
    IN  IF c.raised THEN Raised
        ELSE LET result == run(self, df, c.strategy)
             IN  IF result.raised THEN Raised
                 ELSE [raised |-> FALSE, row |-> Summary(result)]

\* A slip: the except branch leaves the loop (break for continue).
EvaluationsAbortOnError(self, df, strategy_class, param_grid) ==
    LET combos == product(ParamValues(param_grid))
        all == [i \in 1..Len(combos) |->
                  LET params == ZipParams(ParamNames(param_grid), combos[i])
                  IN  [params |-> params,
                       outcome |-> Evaluate(self, df, strategy_class, params)]]
        bad == {i \in 1..Len(all) : all[i].outcome.raised}
    IN  IF bad = {} THEN all
        ELSE SubSeq(all, 1, CHOOSE i \in bad : \A j \in bad : i <= j)

\* The loop of grid_search: for each combination, in product order, what was
\* evaluated and what came of it.
Evaluations(self, df, strategy_class, param_grid) ==
    LET combos == product(ParamValues(param_grid))
    IN  [i \in 1..Len(combos) |->
            LET params == ZipParams(ParamNames(param_grid), combos[i])
            IN  [params |-> params,
                 outcome |-> Evaluate(self, df, strategy_class, params)]]

\* results: the rows appended, in loop order.
Results(evaluations) ==
    LET kept == SelectSeq(evaluations, LAMBDA e : ~e.outcome.raised)
    IN  [i \in 1..Len(kept) |-> kept[i].outcome.row]

TermColumns == {"annual_return", "sharpe_ratio"}

IntColumns ==
    {"total_trades", "short_period", "long_period", "trend_period", "rsi_threshold"}

\* a < b for two annual returns or two Sharpe ratios, where the terms decide
\* it: by sign, and within a sign by monotonicity in the base and in the
\* variance.  Where they do not decide it, neither TermLt(a, b) nor
\* TermLt(b, a) holds.
TermLt(a, b) ==
    LET sa == TermSign(a)
        sb == TermSign(b)
    IN  IF sa # sb THEN sa < sb
        ELSE IF sa = 0 \/ a = b THEN FALSE
        ELSE IF a.k = "pow" /\ b.k = "pow"
             THEN a.days = b.days /\ Lt(a.base, b.base)
        ELSE IF a.k = "ratio" /\ b.k = "ratio" /\ a.ann.days = b.ann.days
             THEN /\ Le(a.ann.base, b.ann.base)
                  /\ IF sa > 0 THEN Le(b.vol2, a.vol2) ELSE Le(a.vol2, b.vol2)
        ELSE FALSE

KeyLt(column, a, b) ==
    IF column \in TermColumns THEN TermLt(a, b)
    ELSE IF column \in IntColumns THEN a < b
    ELSE Lt(a, b)

KeyIsNaN(column, a) ==
    IF column \in TermColumns \/ column \in IntColumns THEN FALSE ELSE IsNaN(a)

\* A slip: the table is sorted ascending (ascending = False left out).
SortValuesAscending(rows, column) ==
    {[i \in 1..Len(rows) |-> rows[p[i]]] : p \in
        {q \in Permutations(1..Len(rows)) :
            \A i, j \in 1..Len(rows) :
                i < j => /\ ~KeyLt(column, rows[q[j]][column], rows[q[i]][column])
                         /\ KeyIsNaN(column, rows[q[i]][column])
                                => KeyIsNaN(column, rows[q[j]][column])}}

\* results_df.sort_values(sort_by, ascending = False): the default sort kind
\* is not stable, so every descending arrangement (NaN last) is an outcome.
SortValuesDescending(rows, column) ==
    {[i \in 1..Len(rows) |-> rows[p[i]]] : p \in
        {q \in Permutations(1..Len(rows)) :
            \A i, j \in 1..Len(rows) :
                i < j => /\ ~KeyLt(column, rows[q[i]][column], rows[q[j]][column])
                         /\ KeyIsNaN(column, rows[q[i]][column])
                                => KeyIsNaN(column, rows[q[j]][column])}}

\* The tables grid_search can return for the rows collected.
grid_search(results, sort_by) ==
    IF Len(results) = 0 THEN {<<>>}
    ELSE IF sort_by \in DOMAIN results[1] THEN SortValuesDescending(results, sort_by)
    ELSE {results}

\* ---------------------------------------------------------- walk forward
\* int(len(df) * train_ratio) for the fraction train_ratio = <<num, den>>.
SplitIndex(n, train_ratio) == (n * train_ratio[1]) \div train_ratio[2]

\* df.iloc[from - 1 : to]: the bars, and the index labels they keep (a bar's
\* label is its place in the caller's frame).
Iloc(df, from, to) == SubSeq(df, from, to)

IlocIndex(from, to) == [i \in 1..(to - from + 1) |-> from + i - 1]

\* best_params: the entries of the best row whose key is a key of param_grid.
BestParams(best_row, param_grid) ==
    LET names == SelectSeq(ParamNames(param_grid), LAMBDA k : k \in DOMAIN best_row)
    IN  [i \in 1..Len(names) |-> <<names[i], best_row[names[i]]>>]

\* index[0].date() ~ index[-1].date(), or Raised (IndexError) on an empty frame.
Period(index) ==
    IF Len(index) = 0 THEN Raised
    ELSE [raised |-> FALSE, first |-> index[1], last |-> index[Len(index)]]

\* A slip: the check for an empty training table is left out.
NoTrainResultsUnchecked(train_results) == FALSE

\* len(train_results) == 0
NoTrainResults(train_results) == Len(train_results) = 0

\* The end of walk_forward, after the run on the test bars: the report, or
\* the exception of the run or of a period taken from an empty frame.
WalkForwardReturn(train_index, test_index, best_row, best_params, calls, test_result) ==
    IF test_result.raised \/ Period(train_index).raised \/ Period(test_index).raised
    THEN [raised |-> TRUE, calls |-> calls, best_params |-> best_params, ret |-> <<>>]
    ELSE [raised |-> FALSE, calls |-> calls, best_params |-> best_params,
          ret |-> [train_period |-> Period(train_index),
                   test_period |-> Period(test_index),
                   best_params |-> best_params,
                   train_sharpe |-> best_row.sharpe_ratio,
                   train_return |-> best_row.total_return,
                   test_result |-> test_result]]

\* strategy = strategy_class(**best_params); test_result = self.run(test_df,
\* strategy), for c the outcome of the construction.
WalkForwardTest(self, test_df, train_index, test_index, best_row, best_params, c) ==
    IF c.raised
    THEN [raised |-> TRUE, calls |-> <<>>, best_params |-> best_params, ret |-> <<>>]
    ELSE WalkForwardReturn(train_index, test_index, best_row, best_params,
                           <<[df |-> test_df, strategy |-> c.strategy]>>,
                           run(self, test_df, c.strategy))

\* best_row = train_results.iloc[0] and its best_params.
WalkForwardBest(self, test_df, train_index, test_index, strategy_class, best_row, best_params) ==
    WalkForwardTest(self, test_df, train_index, test_index, best_row, best_params,
                    Construct(strategy_class, best_params))

\* walk_forward after the training grid search returned train_results: what
\* it returns (ret), whether it raised, and the calls of run it made.
WalkForwardReport(self, train_df, test_df, train_index, test_index, strategy_class, param_grid, train_results) ==
    IF NoTrainResults(train_results)
    THEN [raised |-> FALSE, calls |-> <<>>, best_params |-> <<>>,
          ret |-> [error |-> "No valid results in training period"]]
    ELSE IF Len(train_results) = 0
    THEN [raised |-> TRUE, calls |-> <<>>, best_params |-> <<>>, ret |-> <<>>]
    ELSE WalkForwardBest(self, test_df, train_index, test_index, strategy_class,
                         train_results[1], BestParams(train_results[1], param_grid))

\* A slip: the grid search is given the whole frame, test bars included.
TrainFrameWhole(df, split_idx) == df

\* train_df = df.iloc[:split_idx]
TrainFrame(df, split_idx) == Iloc(df, 1, split_idx)

\* A slip: the test frame starts one bar early and shares it with train_df.
TestFrameOverlap(df, split_idx) ==
    Iloc(df, IF split_idx > 0 THEN split_idx ELSE 1, Len(df))

\* test_df = df.iloc[split_idx:]
TestFrame(df, split_idx) == Iloc(df, split_idx + 1, Len(df))

\* walk_forward from the training grid search on: an outcome for every table
\* the search can return.  The search sorts by its default, sharpe_ratio.
WalkForwardTrain(self, split_idx, train_df, test_df, train_index, test_index, strategy_class, param_grid, evaluations) ==
    {[split_idx |-> split_idx, train_df |-> train_df, test_df |-> test_df,
      train_index |-> train_index, test_index |-> test_index,
      evaluations |-> evaluations, train_results |-> train_results,
      out |-> WalkForwardReport(self, train_df, test_df, train_index, test_index,
                                strategy_class, param_grid, train_results)] :
        train_results \in grid_search(Results(evaluations), "sharpe_ratio")}

\* walk_forward with its two frames cut.
WalkForwardFrames(self, n, split_idx, train_df, test_df, strategy_class, param_grid) ==
    WalkForwardTrain(self, split_idx, train_df, test_df,
                     IlocIndex(1, Len(train_df)), IlocIndex(n - Len(test_df) + 1, n),
                     strategy_class, param_grid,
                     Evaluations(self, train_df, strategy_class, param_grid))

WalkForwardSplit(self, df, strategy_class, param_grid, split_idx) ==
    WalkForwardFrames(self, Len(df), split_idx, TrainFrame(df, split_idx),
                      TestFrame(df, split_idx), strategy_class, param_grid)

\* BacktestEngine.walk_forward: every outcome it can have, with its locals.
walk_forward(self, df, strategy_class, param_grid, train_ratio) ==
    WalkForwardSplit(self, df, strategy_class, param_grid,
                     SplitIndex(Len(df), train_ratio))

\* ----------------------------------------------------- compare strategies
\* A slip: the first strategy that raises ends the loop.
CompareRunsAbortOnError(self, df, strategy_list) ==
    LET all == [i \in 1..Len(strategy_list) |-> run(self, df, strategy_list[i])]
        bad == {i \in 1..Len(all) : all[i].raised}
    IN  IF bad = {} THEN all
        ELSE SubSeq(all, 1, CHOOSE i \in bad : \A j \in bad : i <= j)

\* The loop of compare_strategies: the outcome of self.run for each strategy,
\* in the order of the list.
CompareRuns(self, df, strategy_list) ==
    [i \in 1..Len(strategy_list) |-> run(self, df, strategy_list[i])]

\* BacktestEngine.compare_strategies: the summary rows of the runs that
\* returned, in loop order.
compare_strategies(runs) ==
    LET kept == SelectSeq(runs, LAMBDA r : ~r.raised)
    IN  [i \in 1..Len(kept) |-> Summary(kept[i])]

\* ----------------------------------------------------------------- state
\* engine  the BacktestEngine instance (its four attributes)
\* df      the caller's bar series: the close column, oldest bar first
\* script  which calling script drives the engine: "single" makes one call,
\*         with any argument to run and grid_search; "walk" makes one call,
\*         with any argument to walk_forward; "filters" makes one call,
\*         a run of any EMACrossStrategy; "sequence" makes up to
\*         MaxCalls calls, one after the other, with a few arguments
\* log     the calls made so far, each with its arguments and its outcome
VARIABLES engine, df, script, log

vars == <<engine, df, script, log>>

Prices == 1..MaxPrice

BarSeries == UNION {[1..n -> Prices] : n \in 0..MaxLen}

Quarter == <<1, 4>>

\* (fee_rate, slippage, initial_capital) as passed to the constructor.
EngineConfigs ==
    {<<Zero, Zero, R(10)>>, <<Quarter, Zero, R(1)>>, <<Quarter, Quarter, R(10)>>}

Periods == 0..MaxPeriod

SimpleStrategies ==
    {SimpleEMACrossStrategy(s, l) : s \in Periods, l \in Periods}

\* EMACrossStrategy instances: three period pairs, two trend periods, an RSI
\* period of 1, 2 or the default 14, each filter on or off; and two with a
\* trend period that ewm rejects.
EMACrossStrategies ==
    {EMACrossStrategy(p[1], p[2], trend_period, rsi_period, 50, t, m) :
        p \in {<<1, 2>>, <<2, 1>>, <<1, 3>>}, trend_period \in {2, 3},
        rsi_period \in {1, 2, 14}, t \in BOOLEAN, m \in BOOLEAN}
    \cup {EMACrossStrategy(1, 2, 0, 1, 50, t, FALSE) : t \in BOOLEAN}

\* The strategy instances the script passes to run on the bars df: for
\* "single", every SimpleEMACrossStrategy and a caller-written strategy for
\* every signal column over df.
Strategies(s, bars) ==
    IF s = "single"
    THEN SimpleStrategies \cup {CustomStrategy(t) : t \in [1..Len(bars) -> Signals]}
    ELSE IF s = "filters" THEN EMACrossStrategies
    ELSE {SimpleEMACrossStrategy(1, 2), SimpleEMACrossStrategy(0, 2)}
            \cup (IF Len(bars) = 3 THEN {CustomStrategy(<<1, -1, 0>>)} ELSE {})

ParamGrids ==
    {<< <<"short_period", <<1, 2>>>>, <<"long_period", <<2, 3>>>> >>,
     << <<"short_period", <<0, 1>>>>, <<"long_period", <<2>>>> >>,
     << <<"short_period", <<1, 0, 2>>>> >>,
     << <<"long_period", <<2, 2>>>> >>,
     << <<"trend_period", <<5>>>>, <<"short_period", <<1, 2>>>> >>,
     << <<"short_period", <<>>>> >>,
     <<>>}

\* The <<strategy_class, param_grid>> pairs the script passes to grid_search.
Searches(s) ==
    IF s = "single"
    THEN ({"SimpleEMACrossStrategy"} \X ParamGrids)
            \cup {<<"BaseStrategy", << <<"short_period", <<1, 2>>>> >> >>}
    ELSE {<<"SimpleEMACrossStrategy", << <<"short_period", <<1, 0, 2>>>> >> >>}

\* "score" is no column of the result table.
SortBys(s) ==
    IF s = "single" THEN {"sharpe_ratio", "total_return", "total_trades", "score"}
    ELSE {"sharpe_ratio", "total_trades"}

\* The train_ratio values, as fractions, the script passes to walk_forward.
TrainRatios(s) == IF s = "walk" THEN {<<1, 2>>, <<2, 3>>} ELSE {<<1, 2>>}

\* The <<strategy_class, param_grid>> pairs the script passes to walk_forward.
WalkSearches(s) ==
    IF s = "walk"
    THEN {<<"SimpleEMACrossStrategy",
            << <<"short_period", <<1, 2>>>>, <<"long_period", <<2>>>> >> >>,
          <<"SimpleEMACrossStrategy", << <<"short_period", <<1, 0, 2>>>> >> >>,
          <<"SimpleEMACrossStrategy",
            << <<"trend_period", <<5>>>>, <<"short_period", <<1, 2>>>> >> >>,
          <<"EMACrossStrategy",
            << <<"short_period", <<1>>>>, <<"long_period", <<2>>>>,
               <<"use_trend_filter", <<FALSE>>>>, <<"rsi_period", <<1, 2>>>> >> >>,
          <<"EMACrossStrategy",
            << <<"short_period", <<1, 2>>>>, <<"trend_period", <<1>>>>,
               <<"use_rsi_filter", <<FALSE>>>> >> >>}
    ELSE {<<"SimpleEMACrossStrategy", << <<"short_period", <<1, 0, 2>>>> >> >>}

\* The strategy lists the script passes to compare_strategies on the bars.
StrategyLists(s, bars) ==
    IF s = "single"
    THEN {<<>>,
          <<SimpleEMACrossStrategy(1, 2), SimpleEMACrossStrategy(0, 2),
            SimpleEMACrossStrategy(2, 1)>>,
          <<CustomStrategy(<<1, -1>>), SimpleEMACrossStrategy(1, 2),
            CustomStrategy([i \in 1..Len(bars) |-> 1]),
            SimpleEMACrossStrategy(1, 2)>>,
          <<EMACrossStrategy(1, 2, 1, 1, 50, TRUE, TRUE),
            EMACrossStrategy(2, 1, 0, 1, 50, TRUE, FALSE)>>}
    ELSE {<<SimpleEMACrossStrategy(1, 2), SimpleEMACrossStrategy(0, 2)>>}

Budget(s) == IF s = "sequence" THEN MaxCalls ELSE 1

Init ==
    /\ \E c \in EngineConfigs : engine = BacktestEngine(c[1], c[2], c[3])
    /\ df \in BarSeries
    /\ script = "single"
    /\ log = <<>>

InitWalk ==
    /\ \E c \in EngineConfigs : engine = BacktestEngine(c[1], c[2], c[3])
    /\ df \in BarSeries
    /\ script = "walk"
    /\ log = <<>>

InitFilters ==
    /\ engine = BacktestEngine(Quarter, Quarter, R(10))
    /\ df \in BarSeries
    /\ script = "filters"
    /\ log = <<>>

SeqBars == {<<>>, <<2>>, <<1, 2, 1>>, <<3, 1, 2>>}

InitSeq ==
    /\ \E c \in {<<Quarter, Zero, R(1)>>, <<Quarter, Quarter, R(10)>>} :
          engine = BacktestEngine(c[1], c[2], c[3])
    /\ df \in SeqBars
    /\ script = "sequence"
    /\ log = <<>>

\* engine.run(df, strategy)
Run(strategy) ==
    /\ Len(log) < Budget(script)
    /\ \E result \in {run(engine, df, strategy)} :
           /\ log' = Append(log, [op |-> "run", strategy |-> strategy,
                                   strategy_after |-> StrategyAfterRun(strategy, result),
                                   out |-> result])
           /\ engine' = EngineAfterRun(engine, result)
           /\ df' = FrameAfterRun(df, result)
    /\ UNCHANGED script

\* engine.grid_search(df, strategy_class, param_grid, sort_by)
GridSearch(strategy_class, param_grid, sort_by) ==
    /\ Len(log) < Budget(script)
    /\ \E evaluations \in {Evaluations(engine, df, strategy_class, param_grid)} :
           \E table \in grid_search(Results(evaluations), sort_by) :
               log' = Append(log, [op |-> "grid_search",
                                   strategy_class |-> strategy_class,
                                   param_grid |-> param_grid,
                                   sort_by |-> sort_by,
                                   evaluations |-> evaluations,
                                   out |-> table])
    /\ UNCHANGED <<engine, df, script>>

\* engine.walk_forward(df, strategy_class, param_grid, train_ratio)
WalkForward(strategy_class, param_grid, train_ratio) ==
    /\ Len(log) < Budget(script)
    /\ \E w \in walk_forward(engine, df, strategy_class, param_grid, train_ratio) :
           log' = Append(log, [op |-> "walk_forward",
                               strategy_class |-> strategy_class,
                               param_grid |-> param_grid,
                               train_ratio |-> train_ratio,
                               locals |-> w,
                               out |-> w.out])
    /\ UNCHANGED <<engine, df, script>>

\* engine.compare_strategies(df, strategies)
CompareStrategies(strategy_list) ==
    /\ Len(log) < Budget(script)
    /\ \E runs \in {CompareRuns(engine, df, strategy_list)} :
           log' = Append(log, [op |-> "compare_strategies",
                               strategies |-> strategy_list,
                               runs |-> runs,
                               out |-> compare_strategies(runs)])
    /\ UNCHANGED <<engine, df, script>>

Next ==
    \/ \E strategy \in Strategies(script, df) : Run(strategy)
    \/ \E search \in Searches(script), sort_by \in SortBys(script) :
          GridSearch(search[1], search[2], sort_by)
    \/ \E search \in WalkSearches(script), train_ratio \in TrainRatios(script) :
          WalkForward(search[1], search[2], train_ratio)
    \/ \E strategy_list \in StrategyLists(script, df) : CompareStrategies(strategy_list)

Spec == Init /\ [][Next]_vars

SpecSeq == InitSeq /\ [][Next]_vars

SpecWalk == InitWalk /\ [][Next]_vars

SpecFilters == InitFilters /\ [][Next]_vars

\* ---------------------------------------------------------------- claims
\* The calls of run in the log that returned a BacktestResult.
Runs == {i \in 1..Len(log) : log[i].op = "run" /\ ~log[i].out.raised}

GridSearches == {i \in 1..Len(log) : log[i].op = "grid_search"}

\* close[t] / close[t-1] - 1 at sequence index i = t + 1.
PriceReturn(close, i) == Sub(Div(R(close[i]), R(close[i - 1])), One)

\* |signal[t] - signal[t-1]| * total_cost at sequence index i = t + 1.
TransitionCost(signals, i, total_cost) ==
    Mul(R(Abs(signals[i] - signals[i - 1])), total_cost)

\* The strategy returns run computes from the same bars on the same engine
\* when the signal at index i is v instead.
ReturnsWithSignalAt(r, i, v) ==
    StrategyReturns(engine, r.df.close, [r.signals EXCEPT ![i] = v])

\* C1 as stated: for every bar t >= 1, changing signal[t] alone leaves
\* strategy_return[t] unchanged.
C1_LagInvariantAsStated ==
    \A n \in Runs :
        LET r == log[n].out
        IN  \A i \in 2..Len(r.signals) : \A v \in Signals :
                ReturnsWithSignalAt(r, i, v)[i] = r.strategy_returns[i]

\* C1 amended: for every bar t >= 1, changing signal[t] alone changes
\* strategy_return[t] by the change of the transition cost
\* |signal[t] - signal[t-1]| * total_cost and by nothing else: the return
\* before that cost depends only on signal[t-1] and the prices.
C1_LagInvariant ==
    \A n \in Runs :
        LET r == log[n].out
        IN  \A i \in 2..Len(r.signals) : \A v \in Signals :
                Add(ReturnsWithSignalAt(r, i, v)[i],
                    TransitionCost([r.signals EXCEPT ![i] = v], i, engine.total_cost))
                  = Add(r.strategy_returns[i],
                        TransitionCost(r.signals, i, engine.total_cost))

\* C1's case: a run under a non-zero cost rate in which some bar t >= 1 keeps
\* the signal of bar t-1 while the price moved, so that another signal[t]
\* would add a transition cost.
C1_Witness ==
    \E n \in Runs :
        LET r == log[n].out
        IN  /\ Gt(engine.total_cost, Zero)
            /\ \E i \in 2..Len(r.signals) :
                  /\ r.signals[i] = r.signals[i - 1]
                  /\ r.signals[i - 1] # 0
                  /\ r.df.close[i] # r.df.close[i - 1]

\* C2: strategy_return[0] = 0 and, for t >= 1, strategy_return[t] =
\* (close[t]/close[t-1] - 1) * signal[t-1]
\*   - |signal[t] - signal[t-1]| * (fee_rate + slippage).
C2_StrategyReturnFormula ==
    \A n \in Runs :
        LET r == log[n].out
            close == r.df.close
        IN  /\ Len(r.strategy_returns) = Len(close)
            /\ \A i \in 1..Len(close) :
                  r.strategy_returns[i] =
                     IF i = 1 THEN Zero
                     ELSE Sub(Mul(PriceReturn(close, i), R(r.signals[i - 1])),
                              TransitionCost(r.signals, i,
                                             Add(engine.fee_rate, engine.slippage)))

\* C2's case: fee and slippage both charged, a non-zero signal at bar 0, and a
\* bar t >= 1 with a moving price, a held position and a signal change.
C2_Witness ==
    \E n \in Runs :
        LET r == log[n].out
        IN  /\ Gt(engine.fee_rate, Zero)
            /\ Gt(engine.slippage, Zero)
            /\ Len(r.signals) >= 2
            /\ r.signals[1] # 0
            /\ \E i \in 2..Len(r.signals) :
                  /\ r.signals[i] # r.signals[i - 1]
                  /\ r.signals[i - 1] # 0
                  /\ r.df.close[i] # r.df.close[i - 1]

\* C3: the equity curve is as long as the bar series, starts at
\* initial_capital, and equity[t] = equity[t-1] * (1 + strategy_return[t]).
C3_EquityCurve ==
    \A n \in Runs :
        LET r == log[n].out
        IN  /\ Len(r.equity_curve) = Len(df)
            /\ \A i \in 1..Len(r.equity_curve) :
                  r.equity_curve[i] =
                     IF i = 1 THEN engine.initial_capital
                     ELSE Mul(r.equity_curve[i - 1], Add(One, r.strategy_returns[i]))

\* C3's case: a run over three bars or more whose returns at two bars are not
\* zero, from an initial capital other than 1.
C3_Witness ==
    \E n \in Runs :
        LET r == log[n].out
        IN  /\ engine.initial_capital # One
            /\ Len(r.equity_curve) >= 3
            /\ r.strategy_returns[2] # Zero
            /\ r.strategy_returns[3] # Zero

GoldenSignals == <<0, 0, 1, 1, -1, -1, 0>>

GoldenClose == <<1, 2, 3, 2, 1, 2, 3>>

\* C4: total_trades is the number of t >= 1 with signal[t] # signal[t-1]; for
\* the signal series [0,0,1,1,-1,-1,0] it is 3.
C4_TradeCount ==
    /\ \A n \in Runs :
          LET r == log[n].out
          IN  r.metrics.total_trades =
                 Cardinality({i \in 2..Len(r.signals) : r.signals[i] # r.signals[i - 1]})
    /\ log = <<>> =>
          run(engine, GoldenClose, CustomStrategy(GoldenSignals)).metrics.total_trades = 3

\* C4's case: a run whose signal starts non-zero, later reverses between +1
\* and -1 and changes once more: two trades, bar 0 not among them.
C4_Witness ==
    \E n \in Runs :
        LET r == log[n].out
        IN  /\ Len(r.signals) >= 3
            /\ r.signals[1] # 0
            /\ \E i \in 2..Len(r.signals) : Abs(r.signals[i] - r.signals[i - 1]) = 2
            /\ r.metrics.total_trades = 2

IsConstant(signals) == \A i, j \in 1..Len(signals) : signals[i] = signals[j]

\* C5: under a constant signal the cost charged is 0 at every bar, and
\* strategy_return[t] = price_return[t] * signal for t >= 1.
C5_ConstantSignalNoCost ==
    \A n \in Runs :
        LET r == log[n].out
        IN  IsConstant(r.signals) =>
               \A i \in 1..Len(r.signals) :
                  /\ Mul(r.position_changes[i], engine.total_cost) = Zero
                  /\ r.strategy_returns[i] =
                        IF i = 1 THEN Zero
                        ELSE Mul(PriceReturn(r.df.close, i), R(r.signals[1]))

\* C5's case: a non-zero signal held from bar 0 over several bars with moving
\* prices, under a non-zero cost rate.
C5_Witness ==
    \E n \in Runs :
        LET r == log[n].out
        IN  /\ Gt(engine.total_cost, Zero)
            /\ Len(r.signals) >= 3
            /\ r.signals[1] # 0
            /\ IsConstant(r.signals)
            /\ r.df.close[2] # r.df.close[1]

\* C6: the cost deducted at bar t >= 1, the return before cost minus the
\* return credited, is |signal[t] - signal[t-1]| * total_cost whatever the
\* prices and the equity: 1 * total_cost between 0 and +-1, 2 * total_cost
\* for a reversal between +1 and -1.
C6_CostProportional ==
    \A n \in Runs :
        LET r == log[n].out
        IN  \A i \in 2..Len(r.signals) :
               LET cost == Sub(Mul(PriceReturn(r.df.close, i), R(r.signals[i - 1])),
                               r.strategy_returns[i])
                   d == Abs(r.signals[i] - r.signals[i - 1])
               IN  /\ d = 0 => cost = Zero
                   /\ d = 1 => cost = engine.total_cost
                   /\ d = 2 => cost = Add(engine.total_cost, engine.total_cost)

\* C6's case: a run, under a non-zero cost rate, with a reversal at one bar
\* and a change to or from 0 at another, at different price levels and equity.
C6_Witness ==
    \E n \in Runs :
        LET r == log[n].out
        IN  /\ Gt(engine.total_cost, Zero)
            /\ \E i, j \in 2..Len(r.signals) :
                  /\ Abs(r.signals[i] - r.signals[i - 1]) = 2
                  /\ Abs(r.signals[j] - r.signals[j - 1]) = 1
                  /\ r.df.close[i] # r.df.close[j]
                  /\ r.equity_curve[i - 1] # r.equity_curve[j - 1]

NonDecreasing(s) == \A i \in 2..Len(s) : Le(s[i - 1], s[i])

\* C7: max_drawdown <= 0, and max_drawdown = 0 only if the equity curve never
\* decreases.
C7_DrawdownBound ==
    \A n \in Runs :
        LET r == log[n].out
        IN  /\ Le(r.metrics.max_drawdown, Zero)
            /\ r.metrics.max_drawdown = Zero => NonDecreasing(r.equity_curve)

\* C7's case: an equity curve that falls below its peak and later rises to a
\* new peak.
C7_Witness ==
    \E n \in Runs :
        LET r == log[n].out
        IN  /\ Len(r.equity_curve) >= 3
            /\ Lt(r.equity_curve[2], r.equity_curve[1])
            /\ Lt(r.equity_curve[1], r.equity_curve[3])
            /\ Lt(r.metrics.max_drawdown, Zero)

AllZero(signals) == \A i \in 1..Len(signals) : signals[i] = 0

\* C8: an all-zero signal series over a non-empty bar series gives
\* total_return = 0, sharpe_ratio = 0, total_trades = 0 and win_rate = 0.
C8_ZeroTrade ==
    \A n \in Runs :
        LET r == log[n].out
        IN  (Len(df) > 0 /\ AllZero(r.signals)) =>
               /\ r.metrics.total_return = Zero
               /\ r.metrics.sharpe_ratio = Num(Zero)
               /\ r.metrics.total_trades = 0
               /\ r.metrics.win_rate = Zero

\* C8's case: an all-zero signal over several bars with moving prices, under
\* a non-zero cost rate.
C8_Witness ==
    \E n \in Runs :
        LET r == log[n].out
        IN  /\ Gt(engine.total_cost, Zero)
            /\ Len(r.signals) >= 3
            /\ AllZero(r.signals)
            /\ r.df.close[2] # r.df.close[1]
            /\ r.df.close[3] # r.df.close[2]

RECURSIVE Picks(_, _)
Picks(param_grid, params) ==
    IF Len(param_grid) = 0 THEN 1
    ELSE Cardinality({j \in 1..Len(param_grid[1][2]) :
                         <<param_grid[1][1], param_grid[1][2][j]>> = params[1]})
            * Picks(Tail(param_grid), Tail(params))

RECURSIVE GridSize(_)
GridSize(param_grid) ==
    IF Len(param_grid) = 0 THEN 1
    ELSE Len(param_grid[1][2]) * GridSize(Tail(param_grid))

Occurrences(s, x) == Cardinality({i \in 1..Len(s) : s[i] = x})

\* C10: grid_search evaluates every combination of the Cartesian product
\* exactly once, also after a combination raised, and returns exactly one row
\* per combination that did not raise.
C10_GridSearchComplete ==
    \A n \in GridSearches :
        LET e == log[n]
            ev == e.evaluations
            ok == {i \in 1..Len(ev) : ~ev[i].outcome.raised}
        IN  /\ Len(ev) = GridSize(e.param_grid)
            /\ \A i \in 1..Len(ev) :
                  /\ Len(ev[i].params) = Len(e.param_grid)
                  /\ Cardinality({j \in 1..Len(ev) : ev[j].params = ev[i].params})
                        = Picks(e.param_grid, ev[i].params)
            /\ Len(e.out) = Cardinality(ok)
            /\ \A i \in ok :
                  Occurrences(e.out, ev[i].outcome.row)
                     = Cardinality({j \in ok : ev[j].outcome.row = ev[i].outcome.row})

\* C10's case: a grid whose second combination raises and whose first and
\* third do not: two rows come back.
C10_Witness ==
    \E n \in GridSearches :
        LET ev == log[n].evaluations
        IN  /\ Len(ev) = 3
            /\ ~ev[1].outcome.raised
            /\ ev[2].outcome.raised
            /\ ~ev[3].outcome.raised
            /\ Len(log[n].out) = 2
            /\ Len(df) >= 2

\* The grid searches whose table has the sort_by column, so that it was sorted.
SortedSearches ==
    {g \in GridSearches : Len(log[g].out) > 0 /\ log[g].sort_by \in DOMAIN log[g].out[1]}

\* a >= b in the column, compared as the column's values are: exactly for the
\* rational and the integer columns, and as far as the terms decide it for
\* the Sharpe ratio and the annual return.
KeyGe(column, a, b) ==
    IF column \in TermColumns THEN ~TermLt(a, b)
    ELSE IF column \in IntColumns THEN a >= b
    ELSE ~IsNaN(a) /\ ~IsNaN(b) /\ Le(b, a)

Position(results, row) ==
    CHOOSE i \in 1..Len(results) :
        results[i] = row /\ \A j \in 1..Len(results) : results[j] = row => i <= j

\* C12: rows with the same sort_by value come out in the order the loop
\* collected them, which is the order of the Cartesian product (a stable
\* sort).
C12_TiesInProductOrder ==
    \A g \in SortedSearches :
        LET out == log[g].out
            column == log[g].sort_by
            results == Results(log[g].evaluations)
        IN  \A i, j \in 1..Len(out) :
                (i < j /\ out[i][column] = out[j][column] /\ out[i] # out[j])
                    => Position(results, out[i]) < Position(results, out[j])

WalkForwards == {i \in 1..Len(log) : log[i].op = "walk_forward"}

\* The calls of walk_forward that returned a report (no error, no exception).
Reports ==
    {i \in WalkForwards : ~log[i].out.raised /\ "test_result" \in DOMAIN log[i].out.ret}

\* floor(n * ratio) for the fraction ratio, as the arithmetic defines it.
IsFloor(k, n, ratio) == k * ratio[2] <= n * ratio[1] /\ n * ratio[1] < (k + 1) * ratio[2]

HundredBars == [i \in 1..100 |-> 1]

\* C13: walk_forward splits at floor(len(bars) * train_ratio); train is the
\* bars before the split and test the bars from it on, so the two share no
\* bar, every train bar precedes every test bar, and train followed by test
\* is the caller's series; 100 bars at train_ratio 0.5 give 50 and 50.
C13_Split ==
    /\ \A i \in WalkForwards :
        LET w == log[i].locals
            n == Len(df)
        IN  /\ IsFloor(w.split_idx, n, log[i].train_ratio)
            /\ w.train_df = [k \in 1..w.split_idx |-> df[k]]
            /\ w.test_df = [k \in 1..(n - w.split_idx) |-> df[w.split_idx + k]]
            /\ w.train_df \o w.test_df = df
            /\ w.train_index \o w.test_index = [k \in 1..n |-> k]
            /\ \A a \in 1..Len(w.train_index), b \in 1..Len(w.test_index) :
                   w.train_index[a] < w.test_index[b]
    /\ LET split_idx == SplitIndex(Len(HundredBars), <<1, 2>>)
       IN  /\ Len(TrainFrame(HundredBars, split_idx)) = 50
           /\ Len(TestFrame(HundredBars, split_idx)) = 50

\* A walk-forward over three bars at train_ratio 1/2: 1.5 is floored to one
\* train bar and two test bars.
C13_Witness ==
    \E i \in WalkForwards :
        /\ Len(df) = 3
        /\ log[i].train_ratio = <<1, 2>>
        /\ Len(log[i].locals.train_df) = 1
        /\ Len(log[i].locals.test_df) = 2

\* The strategy walk_forward ran on the test bars.
TestStrategy(i) == log[i].out.calls[1].strategy

\* The combinations of the training grid whose summary row is the best row.
BestEvaluations(i) ==
    LET w == log[i].locals
    IN  {k \in 1..Len(w.evaluations) :
            /\ ~w.evaluations[k].outcome.raised
            /\ w.evaluations[k].outcome.row = w.train_results[1]}

\* C14: for every parameter name of param_grid, the strategy evaluated on the
\* test bars is constructed with the value the top-ranked training row's
\* strategy was constructed with, whether or not the strategy's params
\* mapping echoes that parameter.
C14_TestUsesBestParams ==
    \A i \in Reports :
        \A k \in BestEvaluations(i) :
            LET params == log[i].locals.evaluations[k].params
            IN  \A j \in 1..Len(params) : TestStrategy(i)[params[j][1]] = params[j][2]

\* The bar series that keep the first split_idx bars of bars and differ from
\* it in at most one later bar.  Chains of such changes reach every series
\* with the same prefix and length.
SuffixVariants(bars, split_idx) ==
    {[bars EXCEPT ![k] = p] : k \in (split_idx + 1)..Len(bars), p \in Prices}

\* What walk_forward can choose on bars: the best parameters, and whether the
\* training table was empty.
Choices(self, bars, strategy_class, param_grid, train_ratio) ==
    {<<w.out.best_params, Len(w.train_results) = 0>> :
        w \in walk_forward(self, bars, strategy_class, param_grid, train_ratio)}

\* C15: the parameters walk_forward selects depend on the train prefix only
\* (series with the same prefix and other test bars select the same), the
\* grid search sees the train bars alone, and the test bars are evaluated by
\* exactly one run, with the selected parameters.
C15_TrainOnly ==
    \A i \in WalkForwards :
        LET e == log[i]
            w == e.locals
        IN  /\ \A chosen \in {Choices(engine, df, e.strategy_class, e.param_grid,
                                         e.train_ratio)} :
                  \A bars \in SuffixVariants(df, w.split_idx) \ {df} :
                      Choices(engine, bars, e.strategy_class, e.param_grid,
                              e.train_ratio) = chosen
            /\ w.evaluations = Evaluations(engine, SubSeq(df, 1, w.split_idx),
                                           e.strategy_class, e.param_grid)
            /\ i \in Reports =>
                  /\ Len(e.out.calls) = 1
                  /\ e.out.calls[1].df = SubSeq(df, w.split_idx + 1, Len(df))
                  /\ e.out.calls[1].strategy
                        = Construct(e.strategy_class, e.out.best_params).strategy
                  /\ e.out.ret.test_result
                        = run(engine, e.out.calls[1].df, e.out.calls[1].strategy)

\* A report after a real selection (the training rows differ in Sharpe
\* ratio) over two train bars, with a test bar that can vary.
C15_Witness ==
    \E i \in Reports :
        LET w == log[i].locals
        IN  /\ Len(w.train_df) >= 2
            /\ Len(w.test_df) >= 1
            /\ Len(w.train_results) >= 2
            /\ TermLt(w.train_results[2].sharpe_ratio, w.train_results[1].sharpe_ratio)
            /\ Len(log[i].out.best_params) >= 1
            /\ SuffixVariants(df, w.split_idx) # {df}

NoValidResults == [error |-> "No valid results in training period"]

\* C16: when the training grid search yields no row (every combination
\* raised, or the grid is empty), walk_forward returns the no-valid-results
\* outcome: it does not raise and it runs nothing on the test bars.
C16_NoTrainingRows ==
    \A i \in WalkForwards :
        Results(log[i].locals.evaluations) = <<>> =>
            /\ ~log[i].out.raised
            /\ log[i].out.ret = NoValidResults
            /\ log[i].out.calls = <<>>

\* A walk-forward with train and test bars whose two combinations both
\* raised in training.
C16_Witness ==
    \E i \in WalkForwards :
        LET w == log[i].locals
        IN  /\ Len(w.train_df) >= 1
            /\ Len(w.test_df) >= 1
            /\ Len(w.evaluations) = 2
            /\ \A k \in 1..Len(w.evaluations) : w.evaluations[k].outcome.raised
            /\ log[i].out.ret = NoValidResults

\* The train prefix is shorter than min_bars of every strategy the grid
\* constructs.
TrainTooShort(i) ==
    LET w == log[i].locals
    IN  \A k \in 1..Len(w.evaluations) :
            LET c == Construct(log[i].strategy_class, w.evaluations[k].params)
            IN  ~c.raised => Len(w.train_df) < min_bars(c.strategy)

\* C17: when the train prefix has fewer bars than min_bars for every
\* combination of the grid (the empty prefix included), walk_forward returns
\* the no-valid-results outcome, not a report and not an exception.
C17_ShortTrainPrefix ==
    \A i \in WalkForwards :
        TrainTooShort(i) => ~log[i].out.raised /\ log[i].out.ret = NoValidResults

Compares == {i \in 1..Len(log) : log[i].op = "compare_strategies"}

\* The places in the list of the strategies whose run on df returns.
Returning(strategy_list) ==
    {k \in 1..Len(strategy_list) : ~run(engine, df, strategy_list[k]).raised}

\* The place in the list of the n-th strategy whose run returns.
NthReturning(strategy_list, n) ==
    CHOOSE k \in Returning(strategy_list) :
        Cardinality({j \in Returning(strategy_list) : j <= k}) = n

\* C18: compare_strategies calls run once per strategy, in list order, and
\* returns one row per strategy whose run did not raise, in list order; a
\* strategy that raises is left out and the later ones are still run.
C18_CompareStrategies ==
    \A i \in Compares :
        LET e == log[i]
        IN  /\ Len(e.runs) = Len(e.strategies)
            /\ \A k \in 1..Len(e.strategies) :
                   e.runs[k] = run(engine, df, e.strategies[k])
            /\ Len(e.out) = Cardinality(Returning(e.strategies))
            /\ \A n \in 1..Len(e.out) :
                   e.out[n] = Summary(run(engine, df,
                                          e.strategies[NthReturning(e.strategies, n)]))

\* A comparison of four strategies: the first raises, the other three
\* return, two of them the same strategy.
C18_Witness ==
    \E i \in Compares :
        /\ Len(log[i].strategies) = 4
        /\ log[i].runs[1].raised
        /\ Len(log[i].out) = 3
        /\ log[i].strategies[2] = log[i].strategies[4]

RunCalls == {i \in 1..Len(log) : log[i].op = "run"}

\* C19: run checks the number of bars against the strategy's min_bars before
\* any indicator is computed: on fewer bars it reports insufficient data,
\* which is no ordinary BacktestResult.
C19_MinBarsChecked ==
    \A i \in RunCalls :
        Len(df) < min_bars(log[i].strategy) => log[i].out.raised

\* C20: run on a bar series of length zero fails with an error; it never
\* returns a BacktestResult (whose metrics would all be zero).
C20_EmptyBarsRejected ==
    \A i \in RunCalls : Len(df) = 0 => log[i].out.raised

\* The runs of a SimpleEMACrossStrategy that returned.
SimpleRuns == {n \in Runs : log[n].strategy.cls = "SimpleEMACrossStrategy"}

\* C21 as stated: the signal column has one value of {-1, 0, +1} per bar, +1
\* where the short average is above the long one, -1 where it is below, and
\* 0 only where an average is undefined.
C21_CrossoverAsStated ==
    \A n \in SimpleRuns :
        LET signal == log[n].out.signals
            es == ema(df, log[n].strategy.short_period)
            el == ema(df, log[n].strategy.long_period)
        IN  /\ Len(signal) = Len(df)
            /\ \A i \in 1..Len(df) :
                  /\ signal[i] \in {-1, 0, 1}
                  /\ Gt(es[i], el[i]) => signal[i] = 1
                  /\ Lt(es[i], el[i]) => signal[i] = -1
                  /\ signal[i] = 0 => IsNaN(es[i]) \/ IsNaN(el[i])

\* C21: the signal column has one value of {-1, 0, +1} per bar: +1 exactly
\* where the short average is above the long one, -1 exactly where it is
\* below, and 0 exactly where the two are equal; no average is undefined.
C21_Crossover ==
    \A n \in SimpleRuns :
        LET signal == log[n].out.signals
            es == ema(df, log[n].strategy.short_period)
            el == ema(df, log[n].strategy.long_period)
        IN  /\ Len(signal) = Len(df)
            /\ \A i \in 1..Len(df) :
                  /\ signal[i] \in {-1, 0, 1}
                  /\ ~IsNaN(es[i]) /\ ~IsNaN(el[i])
                  /\ signal[i] = 1 <=> Gt(es[i], el[i])
                  /\ signal[i] = -1 <=> Lt(es[i], el[i])
                  /\ signal[i] = 0 <=> es[i] = el[i]

\* A run of different periods whose signal column holds all three values:
\* 0 at bar 0, where both averages are the first close, then a long and a
\* short bar.
C21_Witness ==
    \E n \in SimpleRuns :
        /\ log[n].strategy.short_period # log[n].strategy.long_period
        /\ Len(df) >= 3
        /\ log[n].out.signals[1] = 0
        /\ \E i, j \in 2..Len(df) :
              log[n].out.signals[i] = 1 /\ log[n].out.signals[j] = -1

\* The runs of an EMACrossStrategy that returned.
EMACrossRuns == {n \in Runs : log[n].strategy.cls = "EMACrossStrategy"}

\* The unfiltered crossover series of a strategy's short and long periods.
BaseSignal(st) == CrossSignal(ema(df, st.short_period), ema(df, st.long_period))

\* The trend filter is off, or close is above the trend average at bar i.
TrendPasses(st, i) ==
    st.use_trend_filter => Gt(R(df[i]), ema(df, st.trend_period)[i])

\* The momentum filter is off, or the RSI is above rsi_threshold at bar i.
RsiPasses(st, i) ==
    st.use_rsi_filter => Gt(rsi(df, st.rsi_period)[i], R(st.rsi_threshold))

\* C22: at every bar EMACrossStrategy emits -1 exactly where the crossover
\* signal is -1, +1 exactly where the crossover signal is +1 and every
\* enabled filter passes, and 0 otherwise; with both filters off the series
\* is the one of SimpleEMACrossStrategy for the same periods.
C22_Filters ==
    \A n \in EMACrossRuns :
        LET st == log[n].strategy
            signal == log[n].out.signals
        IN  /\ Len(signal) = Len(df)
            /\ \A i \in 1..Len(df) :
                  /\ signal[i] \in {-1, 0, 1}
                  /\ signal[i] = -1 <=> BaseSignal(st)[i] = -1
                  /\ signal[i] = 1 <=>
                        BaseSignal(st)[i] = 1 /\ TrendPasses(st, i) /\ RsiPasses(st, i)
            /\ (~st.use_trend_filter /\ ~st.use_rsi_filter) =>
                  signal = Calculate(SimpleEMACrossStrategy(st.short_period,
                                                            st.long_period), df).signal

\* A run with both filters on that emits a long where both pass, keeps a
\* short where the RSI filter fails, and clears a long that a filter fails.
C22_Witness ==
    \E n \in EMACrossRuns :
        LET st == log[n].strategy
            signal == log[n].out.signals
        IN  /\ st.use_trend_filter /\ st.use_rsi_filter
            /\ \E i \in 1..Len(df) : signal[i] = 1
            /\ \E i \in 1..Len(df) : signal[i] = -1 /\ ~RsiPasses(st, i)

\* A long of the crossover cleared by a filter.
C22_Cleared ==
    \E n \in EMACrossRuns :
        \E i \in 1..Len(df) :
            BaseSignal(log[n].strategy)[i] = 1 /\ log[n].out.signals[i] = 0

\* C23: at every bar where an indicator the strategy uses is undefined (the
\* RSI before its window is full, or where its average loss and gain are
\* both 0, when the momentum filter is on) the emitted signal is 0, and
\* calculate does not raise for valid periods.
C23_UndefinedIsNeutral ==
    \A n \in RunCalls :
        LET st == log[n].strategy
        IN  (st.cls = "EMACrossStrategy" /\ ~EMACrossRaises(st)) =>
                /\ ~log[n].out.raised
                /\ \A i \in 1..Len(df) :
                      (st.use_rsi_filter /\ IsNaN(rsi(df, st.rsi_period)[i]))
                          => log[n].out.signals[i] = 0

\* C24: the observation count of run's annualisation, the exponent 365 / n of
\* annual_return, leaves out the first bar, whose return is undefined:
\* n = len(bars) - 1.
C24_RealizedCount ==
    \A n \in Runs :
        log[n].out.metrics.annual_return.k = "pow" =>
            log[n].out.metrics.annual_return.days = Len(df) - 1

\* The number of bars of a run whose strategy return is above, or below, 0.
Wins(n) ==
    Cardinality({i \in 1..Len(df) : Gt(log[n].out.strategy_returns[i], Zero)})

Losses(n) ==
    Cardinality({i \in 1..Len(df) : Lt(log[n].out.strategy_returns[i], Zero)})

\* C25: win_rate is the number of returns > 0 over the number of returns > 0
\* plus the number of returns < 0, zero returns counting on neither side; it
\* is 0 when no return is positive or negative, and it lies in [0, 1].
C25_WinRate ==
    \A n \in Runs :
        LET win_rate == log[n].out.metrics.win_rate
        IN  /\ Wins(n) + Losses(n) = 0 => win_rate = Zero
            /\ Wins(n) + Losses(n) > 0 =>
                  /\ win_rate[2] > 0
                  /\ win_rate[1] * (Wins(n) + Losses(n)) = Wins(n) * win_rate[2]
            /\ Le(Zero, win_rate) /\ Le(win_rate, One)

\* A run with a winning bar, a losing bar and a bar of zero return.
C25_Witness ==
    \E n \in Runs :
        /\ Wins(n) > 0 /\ Losses(n) > 0
        /\ \E i \in 1..Len(df) : log[n].out.strategy_returns[i] = Zero
        /\ log[n].out.metrics.win_rate = Norm(Wins(n), Wins(n) + Losses(n))

\* The orders in which the rows of the evaluations can be collected when the
\* combinations complete in any order.
CollectionOrders(results) ==
    {[i \in 1..Len(results) |-> results[p[i]]] : p \in Permutations(1..Len(results))}

\* C26: the table grid_search returns is the same for every order in which
\* the combinations are evaluated and their rows collected, rows that tie on
\* the sort metric included.
C26_OrderIndependent ==
    \A g \in GridSearches :
        \A results \in CollectionOrders(Results(log[g].evaluations)) :
            grid_search(results, log[g].sort_by) = {log[g].out}

\* The part of C26 that does hold: when sort_by is a column and no two rows
\* collected have the same value in it, the table does not depend on the
\* order of collection.
C26_DistinctKeys ==
    \A g \in SortedSearches :
        LET collected == Results(log[g].evaluations)
            column == log[g].sort_by
        IN  (\A i, j \in 1..Len(collected) :
                i # j => \/ KeyLt(column, collected[i][column], collected[j][column])
                         \/ KeyLt(column, collected[j][column], collected[i][column]))
                => \A results \in CollectionOrders(collected) :
                       grid_search(results, column) = {log[g].out}

C28_TotalReturnIsEquity ==
    \A n \in Runs :
        Len(df) > 0 =>
            log[n].out.equity_curve[Len(df)]
                = Mul(engine.initial_capital, Add(One, log[n].out.metrics.total_return))

\* A run with two returns that are not 0 (their sum is not their compound)
\* and an equity that ends away from the initial capital.
C28_Witness ==
    \E n \in Runs :
        /\ Cardinality({i \in 1..Len(df) : log[n].out.strategy_returns[i] # Zero}) >= 2
        /\ log[n].out.metrics.total_return # Zero
        /\ log[n].out.equity_curve[Len(df)] # engine.initial_capital

\* C29: profit_factor is +infinity for every return series that is not empty
\* and has no negative return, a series with no positive return either
\* included; for the empty series it is 0.
C29_ProfitFactor ==
    \A n \in Runs :
        /\ (Len(df) > 0 /\ Losses(n) = 0) => log[n].out.metrics.profit_factor = PosInf
        /\ Len(df) = 0 => log[n].out.metrics.profit_factor = Zero

\* A run of a strategy that never trades on a series with bars: all returns
\* are 0 and the profit factor is +infinity.
C29_Witness ==
    \E n \in Runs :
        /\ Len(df) >= 2
        /\ \A i \in 1..Len(df) : log[n].out.strategy_returns[i] = Zero
        /\ log[n].out.metrics.profit_factor = PosInf

\* A run on the empty series, with profit factor 0.
C29_Empty ==
    \E n \in Runs : Len(df) = 0 /\ log[n].out.metrics.profit_factor = Zero

\* A row, or the metrics of a run, whose compounded return is <= -1.
WipedOut(m) == Le(m.total_return, R(-1))

\* C30: where the compounded total_return is <= -1, annual_return is 0 and so
\* sharpe_ratio is 0, and a grid search sorted by sharpe_ratio ranks such a
\* row above every row with a negative sharpe_ratio.
C30_WipedOutRanksAsZero ==
    /\ \A n \in Runs :
          WipedOut(log[n].out.metrics) =>
              /\ log[n].out.metrics.annual_return = Num(Zero)
              /\ log[n].out.metrics.sharpe_ratio = Num(Zero)
    /\ \A g \in GridSearches :
          \A i, j \in 1..Len(log[g].out) :
              /\ WipedOut(log[g].out[i]) =>
                    /\ log[g].out[i].annual_return = Num(Zero)
                    /\ log[g].out[i].sharpe_ratio = Num(Zero)
              /\ (/\ log[g].sort_by = "sharpe_ratio"
                  /\ WipedOut(log[g].out[i])
                  /\ TermSign(log[g].out[j].sharpe_ratio) < 0) => i < j

\* A grid search sorted by sharpe_ratio whose table has a wiped-out row and a
\* row with a negative sharpe_ratio.
C30_Witness ==
    \E g \in GridSearches :
        /\ log[g].sort_by = "sharpe_ratio"
        /\ \E i, j \in 1..Len(log[g].out) :
              /\ WipedOut(log[g].out[i])
              /\ TermSign(log[g].out[j].sharpe_ratio) < 0
              /\ Lt(R(-1), log[g].out[j].total_return)

====
